---- MODULE Spec2Model ----
(***************************************************************************)
(* A model of the file viewer data source                                  *)
(* (web/packages/gallery/components/viewer/data-source.ts).                *)
(*                                                                         *)
(* The module state is the four maps of FileViewerDataSourceState.  Each   *)
(* exported function is one action.  Each run of the async function        *)
(* enqueueUpdates is an element of the bag `runs`, and each resumption     *)
(* after an `await` is one action, which runs the code up to the next      *)
(* `await` (or to the end of the function).                                *)
(*                                                                         *)
(* A JavaScript object is a function from the names of the fields it has   *)
(* to their values, so that a field being absent is the name not being in  *)
(* the DOMAIN, an object spread is @@, and `delete` is a restriction.      *)
(***************************************************************************)
EXTENDS Integers, FiniteSets, Sequences, Bags, TLC

VARIABLES
    fileTypeOf,            \* file.metadata.fileType of the EnteFile with each id
    itemDataByFileID,      \* _state.itemDataByFileID
    needsRefreshByFileID,  \* _state.needsRefreshByFileID
    fileInfoExifByFileID,  \* _state.fileInfoExifByFileID
    exifObserverByFileID,  \* _state.exifObserverByFileID
    runs,                  \* the runs of enqueueUpdates that have not returned
    started,               \* per file, the number of calls of enqueueUpdates
    thumbnailFetches,      \* per file, the calls of renderableThumbnailURL
    extractions,           \* the calls of updateFileInfoExifIfNeeded that
                           \* await extractRawExif
    extractorCalls,        \* per file, the number of calls of extractRawExif
    lastCall               \* the function that ran last, and what it did

vars == <<fileTypeOf, itemDataByFileID, needsRefreshByFileID,
          fileInfoExifByFileID, exifObserverByFileID, runs, started,
          thumbnailFetches, extractions, extractorCalls, lastCall>>

(* The most runs of enqueueUpdates started in a behaviour, over all files. *)
MaxRuns == 2

(* The ids of the files the viewer shows. *)
Files == {1, 2}

FileType == {"image", "video", "livePhoto"}

(* The needsRefresh closures the viewer passes. *)
Callbacks == {"refreshA", "refreshB"}

(* What the download manager resolves to. *)
ThumbnailURL == "T"
OriginalURL == "O"
VideoURL == "V"
OriginalImageBlob == "B"

----------------------------------------------------------------------------
(* Objects and maps. *)

(* `delete object.key`, and Map.delete(key). *)
Delete(object, key) == [k \in (DOMAIN object) \ {key} |-> object[k]]

(* Map.set(key, value). *)
MapSet(map, key, value) == (key :> value) @@ map

(* new Map() *)
EmptyMap == <<>>

Has(object, key) == key \in DOMAIN object

(* `object.key` being truthy, for a boolean field that may be absent. *)
Truthy(object, key) == Has(object, key) /\ object[key] = TRUE

(* new FileViewerDataSourceState() *)
FileViewerDataSourceState ==
    [itemDataByFileID |-> EmptyMap,
     needsRefreshByFileID |-> EmptyMap,
     fileInfoExifByFileID |-> EmptyMap,
     exifObserverByFileID |-> EmptyMap]

(* image.naturalWidth and image.naturalHeight of the decoded image. *)
naturalWidth(imageURL) == IF imageURL = ThumbnailURL THEN 4 ELSE 8
naturalHeight(imageURL) == IF imageURL = ThumbnailURL THEN 3 ELSE 6

(* What withDimensions resolves to, when the image loads. *)
withDimensions(imageURL) ==
    [src |-> imageURL,
     width |-> naturalWidth(imageURL),
     height |-> naturalHeight(imageURL)]

----------------------------------------------------------------------------
(* The runs of enqueueUpdates. *)

(* The `await` a run is suspended at. *)
AwaitPoints ==
    {"renderableThumbnailURL", "thumbnailDimensions", "renderableSourceURLs",
     "imageDimensions", "livePhotoImage", "livePhotoDimensions",
     "livePhotoVideo"}

(* A run: its file, the await it is suspended at, whether _state has been  *)
(* replaced since it started, the entry its file had when it last ran (the *)
(* placeholder of the request, then what its last update stored), and the  *)
(* number of needsRefresh callbacks it has invoked.                        *)
Run(fileID, at, stale, wrote, refreshes) ==
    [fileID |-> fileID, at |-> at, stale |-> stale, wrote |-> wrote,
     refreshes |-> refreshes]

RunsOf(fileID) == {r \in BagToSet(runs) : r.fileID = fileID}

RECURSIVE CopiesOf(_)
CopiesOf(rs) ==
    IF rs = {} THEN 0
    ELSE LET r == CHOOSE x \in rs : TRUE
         IN CopiesIn(r, runs) + CopiesOf(rs \ {r})

(* The number of runs in flight for a file. *)
InFlight(fileID) == CopiesOf(RunsOf(fileID))

One(r) == SetToBag({r})

(* The bag of runs, each marked as started under a replaced _state. *)
Staled(bag) ==
    LET mark(r) == [r EXCEPT !.stale = TRUE]
        fresh(x) == [x EXCEPT !.stale = FALSE]
        marked == {mark(r) : r \in BagToSet(bag)}
    IN [x \in marked |-> CopiesIn(x, bag) + CopiesIn(fresh(x), bag)]

NoCallback == "none"

(* An update that merges the item data into the entry the file has. *)
updated_merging(fileID, itemData) ==
    [fileType |-> fileTypeOf[fileID], fileID |-> fileID] @@ itemData
        @@ (IF Has(itemDataByFileID, fileID)
            THEN itemDataByFileID[fileID]
            ELSE <<>>)

(* The item data that `update` stores: { ...itemData, fileType, fileID }. *)
updated(fileID, itemData) ==
    [fileType |-> fileTypeOf[fileID], fileID |-> fileID] @@ itemData

(* markFailed without the `delete lastData.isContentLoading`. *)
markFailedItemData_stillLoading(fileID) ==
    LET lastData == IF Has(itemDataByFileID, fileID)
                    THEN itemDataByFileID[fileID]
                    ELSE <<>>
    IN [fetchFailed |-> TRUE] @@ lastData

(* markFailed that drops the last data. *)
markFailedItemData_dropsLastData(fileID) == [fetchFailed |-> TRUE]

(* The argument markFailed passes to update: the last data without         *)
(* isContentLoading, with fetchFailed.                                     *)
markFailedItemData(fileID) ==
    LET lastData == IF Has(itemDataByFileID, fileID)
                    THEN itemDataByFileID[fileID]
                    ELSE <<>>
    IN [fetchFailed |-> TRUE] @@ Delete(lastData, "isContentLoading")

(* The callback `update` invokes: _state.needsRefreshByFileID.get(id)?.() *)
needsRefreshOf(fileID) ==
    IF Has(needsRefreshByFileID, fileID)
    THEN needsRefreshByFileID[fileID]
    ELSE NoCallback

(* The callbacks the run has invoked, once its `update` has run. *)
refreshesAfterUpdate(r) ==
    IF needsRefreshOf(r.fileID) = NoCallback
    THEN r.refreshes
    ELSE r.refreshes + 1

(* The thumbnail data without isContentZoomable: false. *)
thumbnailItemData_zoomable ==
    [isContentLoading |-> TRUE] @@ withDimensions(ThumbnailURL)

(* What the thumbnail stage passes to update. *)
thumbnailItemData ==
    [isContentLoading |-> TRUE, isContentZoomable |-> FALSE]
        @@ withDimensions(ThumbnailURL)

(* The image data without the dimensions. *)
imageData_noDimensions ==
    [imageURL |-> OriginalURL, originalImageBlob |-> OriginalImageBlob]

(* What the image case, and the image component of the live photo case,    *)
(* pass to update.                                                         *)
imageData ==
    [imageURL |-> OriginalURL, originalImageBlob |-> OriginalImageBlob]
        @@ withDimensions(OriginalURL)

(* What the video case passes to update. *)
videoItemData == [videoURL |-> VideoURL]

(* What the live photo case passes to update once the video resolves. *)
livePhotoItemData == [videoURL |-> VideoURL] @@ imageData

(* An update that stores the item data as the entry of every file. *)
update_everyFile(r, itemData, next) ==
    /\ itemDataByFileID' =
           [g \in (DOMAIN itemDataByFileID) \cup {r.fileID} |->
               updated(r.fileID, itemData)]
    /\ runs' = IF next = "returned"
               THEN runs (-) One(r)
               ELSE (runs (-) One(r))
                        (+) One(Run(r.fileID, next, r.stale,
                                    updated(r.fileID, itemData),
                                    refreshesAfterUpdate(r)))
    /\ lastCall' = [op |-> "enqueueUpdates", fileID |-> r.fileID,
                    resumed |-> r.at, did |-> "update",
                    refreshed |-> needsRefreshOf(r.fileID),
                    returned |-> (next = "returned"), wrote |-> r.wrote,
                    stale |-> r.stale,
                    refreshes |-> refreshesAfterUpdate(r)]
    /\ UNCHANGED <<fileTypeOf, needsRefreshByFileID, fileInfoExifByFileID,
                   exifObserverByFileID, started, thumbnailFetches,
                   extractions, extractorCalls>>

(* The run `r` calls update(itemData) and then either suspends at the      *)
(* await `next` or, when `next` is "returned", returns.                    *)
update(r, itemData, next) ==
    /\ itemDataByFileID' =
           MapSet(itemDataByFileID, r.fileID, updated(r.fileID, itemData))
    /\ runs' = IF next = "returned"
               THEN runs (-) One(r)
               ELSE (runs (-) One(r))
                        (+) One(Run(r.fileID, next, r.stale,
                                    updated(r.fileID, itemData),
                                    refreshesAfterUpdate(r)))
    /\ lastCall' = [op |-> "enqueueUpdates", fileID |-> r.fileID,
                    resumed |-> r.at, did |-> "update",
                    refreshed |-> needsRefreshOf(r.fileID),
                    returned |-> (next = "returned"), wrote |-> r.wrote,
                    stale |-> r.stale,
                    refreshes |-> refreshesAfterUpdate(r)]
    /\ UNCHANGED <<fileTypeOf, needsRefreshByFileID, fileInfoExifByFileID,
                   exifObserverByFileID, started, thumbnailFetches,
                   extractions, extractorCalls>>

(* A markFailed that sets the entry without going through `update`, so    *)
(* that no callback is invoked.                                            *)
markFailed_silent(r) ==
    /\ itemDataByFileID' =
           MapSet(itemDataByFileID, r.fileID,
                  updated(r.fileID, markFailedItemData(r.fileID)))
    /\ runs' = runs (-) One(r)
    /\ lastCall' = [op |-> "enqueueUpdates", fileID |-> r.fileID,
                    resumed |-> r.at, did |-> "markFailed",
                    refreshed |-> NoCallback,
                    returned |-> TRUE, wrote |-> r.wrote,
                    stale |-> r.stale, refreshes |-> r.refreshes]
    /\ UNCHANGED <<fileTypeOf, needsRefreshByFileID, fileInfoExifByFileID,
                   exifObserverByFileID, started, thumbnailFetches,
                   extractions, extractorCalls>>

(* The run `r` catches an error: markFailed(), and the function returns. *)
markFailed(r) ==
    /\ itemDataByFileID' =
           MapSet(itemDataByFileID, r.fileID,
                  updated(r.fileID, markFailedItemData(r.fileID)))
    /\ runs' = runs (-) One(r)
    /\ lastCall' = [op |-> "enqueueUpdates", fileID |-> r.fileID,
                    resumed |-> r.at, did |-> "markFailed",
                    refreshed |-> needsRefreshOf(r.fileID),
                    returned |-> TRUE, wrote |-> r.wrote,
                    stale |-> r.stale,
                    refreshes |-> refreshesAfterUpdate(r)]
    /\ UNCHANGED <<fileTypeOf, needsRefreshByFileID, fileInfoExifByFileID,
                   exifObserverByFileID, started, thumbnailFetches,
                   extractions, extractorCalls>>

(* The run `r` goes from one await to the next without an update. *)
await(r, next) ==
    /\ runs' = (runs (-) One(r)) (+) One([r EXCEPT !.at = next])
    /\ lastCall' = [op |-> "enqueueUpdates", fileID |-> r.fileID,
                    resumed |-> r.at, did |-> "await",
                    refreshed |-> NoCallback,
                    returned |-> FALSE, wrote |-> r.wrote,
                    stale |-> r.stale, refreshes |-> r.refreshes]
    /\ UNCHANGED <<fileTypeOf, itemDataByFileID, needsRefreshByFileID,
                   fileInfoExifByFileID, exifObserverByFileID, started,
                   thumbnailFetches, extractions, extractorCalls>>

Suspended(at) == {r \in BagToSet(runs) : r.at = at}

----------------------------------------------------------------------------
(* The exported functions. *)

RECURSIVE Sum(_, _)
Sum(count, keys) ==
    IF keys = {} THEN 0
    ELSE LET k == CHOOSE x \in keys : TRUE
         IN count[k] + Sum(count, keys \ {k})

(* The number of calls of enqueueUpdates so far. *)
Started == Sum(started, Files)

(* A placeholder without isContentLoading. *)
placeholder_notLoading(fileID) ==
    [fileID |-> fileID, fileType |-> fileTypeOf[fileID]]

(* The placeholder of itemDataForFile. *)
placeholder(fileID) ==
    [fileID |-> fileID, fileType |-> fileTypeOf[fileID],
     isContentLoading |-> TRUE]

(* itemDataForFile without the `if (!itemData)`: every call enqueues. *)
itemDataForFile_noPresenceCheck(fileID, needsRefresh) ==
    /\ needsRefreshByFileID' =
           MapSet(needsRefreshByFileID, fileID, needsRefresh)
    /\ Started < MaxRuns
    /\ itemDataByFileID' =
           MapSet(itemDataByFileID, fileID, placeholder(fileID))
    /\ runs' = runs (+) One(Run(fileID, "renderableThumbnailURL",
                                FALSE, placeholder(fileID), 0))
    /\ started' = [started EXCEPT ![fileID] = @ + 1]
    /\ thumbnailFetches' = [thumbnailFetches EXCEPT ![fileID] = @ + 1]
    /\ lastCall' = [op |-> "itemDataForFile", fileID |-> fileID,
                    needsRefresh |-> needsRefresh,
                    replaced |-> needsRefreshOf(fileID),
                    ret |-> itemDataByFileID'[fileID],
                    enqueued |-> TRUE]
    /\ UNCHANGED <<fileTypeOf, fileInfoExifByFileID, exifObserverByFileID,
                   extractions, extractorCalls>>

(* itemDataForFile that also enqueues when the entry has fetchFailed. *)
itemDataForFile_retriesFailed(fileID, needsRefresh) ==
    LET missing == \/ ~Has(itemDataByFileID, fileID)
                   \/ Truthy(itemDataByFileID[fileID], "fetchFailed")
    IN
    /\ needsRefreshByFileID' =
           MapSet(needsRefreshByFileID, fileID, needsRefresh)
    /\ IF missing
       THEN /\ Started < MaxRuns
            /\ itemDataByFileID' =
                   MapSet(itemDataByFileID, fileID, placeholder(fileID))
            /\ runs' = runs (+) One(Run(fileID, "renderableThumbnailURL",
                                        FALSE, placeholder(fileID), 0))
            /\ started' = [started EXCEPT ![fileID] = @ + 1]
            /\ thumbnailFetches' =
                   [thumbnailFetches EXCEPT ![fileID] = @ + 1]
       ELSE UNCHANGED <<itemDataByFileID, runs, started, thumbnailFetches>>
    /\ lastCall' = [op |-> "itemDataForFile", fileID |-> fileID,
                    needsRefresh |-> needsRefresh,
                    replaced |-> needsRefreshOf(fileID),
                    ret |-> itemDataByFileID'[fileID],
                    enqueued |-> missing]
    /\ UNCHANGED <<fileTypeOf, fileInfoExifByFileID, exifObserverByFileID,
                   extractions, extractorCalls>>

(* itemDataForFile that keeps the callback a file already has. *)
itemDataForFile_keepsFirstCallback(fileID, needsRefresh) ==
    /\ needsRefreshByFileID' =
           IF Has(needsRefreshByFileID, fileID)
           THEN needsRefreshByFileID
           ELSE MapSet(needsRefreshByFileID, fileID, needsRefresh)
    /\ IF ~Has(itemDataByFileID, fileID)
       THEN /\ Started < MaxRuns
            /\ itemDataByFileID' =
                   MapSet(itemDataByFileID, fileID, placeholder(fileID))
            /\ runs' = runs (+) One(Run(fileID, "renderableThumbnailURL",
                                        FALSE, placeholder(fileID), 0))
            /\ started' = [started EXCEPT ![fileID] = @ + 1]
            /\ thumbnailFetches' =
                   [thumbnailFetches EXCEPT ![fileID] = @ + 1]
       ELSE UNCHANGED <<itemDataByFileID, runs, started, thumbnailFetches>>
    /\ lastCall' = [op |-> "itemDataForFile", fileID |-> fileID,
                    needsRefresh |-> needsRefresh,
                    replaced |-> needsRefreshOf(fileID),
                    ret |-> itemDataByFileID'[fileID],
                    enqueued |-> ~Has(itemDataByFileID, fileID)]
    /\ UNCHANGED <<fileTypeOf, fileInfoExifByFileID, exifObserverByFileID,
                   extractions, extractorCalls>>

(* itemDataForFile(file, needsRefresh).  The call of enqueueUpdates runs   *)
(* to its first await, which issues the thumbnail fetch.                   *)
itemDataForFile(fileID, needsRefresh) ==
    /\ needsRefreshByFileID' =
           MapSet(needsRefreshByFileID, fileID, needsRefresh)
    /\ IF ~Has(itemDataByFileID, fileID)
       THEN /\ Started < MaxRuns
            /\ itemDataByFileID' =
                   MapSet(itemDataByFileID, fileID, placeholder(fileID))
            /\ runs' = runs (+) One(Run(fileID, "renderableThumbnailURL",
                                        FALSE, placeholder(fileID), 0))
            /\ started' = [started EXCEPT ![fileID] = @ + 1]
            /\ thumbnailFetches' =
                   [thumbnailFetches EXCEPT ![fileID] = @ + 1]
       ELSE UNCHANGED <<itemDataByFileID, runs, started, thumbnailFetches>>
    /\ lastCall' = [op |-> "itemDataForFile", fileID |-> fileID,
                    needsRefresh |-> needsRefresh,
                    replaced |-> needsRefreshOf(fileID),
                    ret |-> itemDataByFileID'[fileID],
                    enqueued |-> ~Has(itemDataByFileID, fileID)]
    /\ UNCHANGED <<fileTypeOf, fileInfoExifByFileID, exifObserverByFileID,
                   extractions, extractorCalls>>

(* A forget that does not look at fetchFailed. *)
forgetFailed_anyEntry(map, fileID) == Delete(map, fileID)

(* The map after forgetFailedItemDataForFileID(fileID). *)
forgetFailed(map, fileID) ==
    IF Has(map, fileID) /\ Truthy(map[fileID], "fetchFailed")
    THEN Delete(map, fileID)
    ELSE map

forgetFailedItemDataForFileID(fileID) ==
    /\ itemDataByFileID' = forgetFailed(itemDataByFileID, fileID)
    /\ lastCall' = [op |-> "forgetFailedItemDataForFileID",
                    fileID |-> fileID]
    /\ UNCHANGED <<fileTypeOf, needsRefreshByFileID, fileInfoExifByFileID,
                   exifObserverByFileID, runs, started, thumbnailFetches,
                   extractions, extractorCalls>>

(* A forEach that stops after the first key. *)
forEachForgetFailed_firstOnly(keys, map) ==
    IF keys = {} THEN map
    ELSE LET fileID == CHOOSE k \in keys : TRUE
         IN forgetFailed(map, fileID)

(* [...keys].forEach(forgetFailedItemDataForFileID) *)
RECURSIVE forEachForgetFailed(_, _)
forEachForgetFailed(keys, map) ==
    IF keys = {} THEN map
    ELSE LET fileID == CHOOSE k \in keys : TRUE
         IN forEachForgetFailed(keys \ {fileID}, forgetFailed(map, fileID))

forgetFailedItems ==
    /\ itemDataByFileID' =
           forEachForgetFailed(DOMAIN itemDataByFileID, itemDataByFileID)
    /\ lastCall' = [op |-> "forgetFailedItems",
                    keys |-> DOMAIN itemDataByFileID]
    /\ UNCHANGED <<fileTypeOf, needsRefreshByFileID, fileInfoExifByFileID,
                   exifObserverByFileID, runs, started, thumbnailFetches,
                   extractions, extractorCalls>>

(* _state = new FileViewerDataSourceState().  The runs in flight go on,    *)
(* and read _state anew at each use.                                       *)
logoutFileViewerDataSource ==
    /\ itemDataByFileID' = FileViewerDataSourceState.itemDataByFileID
    /\ needsRefreshByFileID' = FileViewerDataSourceState.needsRefreshByFileID
    /\ fileInfoExifByFileID' = FileViewerDataSourceState.fileInfoExifByFileID
    /\ exifObserverByFileID' = FileViewerDataSourceState.exifObserverByFileID
    /\ runs' = Staled(runs)
    /\ extractions' = Staled(extractions)
    /\ lastCall' = [op |-> "logoutFileViewerDataSource"]
    /\ UNCHANGED <<fileTypeOf, started, thumbnailFetches, extractorCalls>>

----------------------------------------------------------------------------
(* The resumptions of enqueueUpdates.  `ok` is whether the awaited promise *)
(* resolved (and, where the code checks it, to a string) or rejected.      *)

(* The catch of the thumbnail stage without its `return`. *)
ThumbnailURLSettled_noReturn ==
    \E r \in Suspended("renderableThumbnailURL"), ok \in BOOLEAN :
        IF ok THEN await(r, "thumbnailDimensions")
        ELSE update(r, markFailedItemData(r.fileID), "renderableSourceURLs")

ThumbnailURLSettled ==
    \E r \in Suspended("renderableThumbnailURL"), ok \in BOOLEAN :
        IF ok THEN await(r, "thumbnailDimensions") ELSE markFailed(r)

(* The thumbnail stage that stores nothing and notifies nobody. *)
ThumbnailDimensionsSettled_noUpdate ==
    \E r \in Suspended("thumbnailDimensions"), ok \in BOOLEAN :
        IF ok THEN await(r, "renderableSourceURLs") ELSE markFailed(r)

ThumbnailDimensionsSettled ==
    \E r \in Suspended("thumbnailDimensions"), ok \in BOOLEAN :
        IF ok THEN update(r, thumbnailItemData, "renderableSourceURLs")
        ELSE markFailed(r)

SourceURLsSettled ==
    \E r \in Suspended("renderableSourceURLs"), ok \in BOOLEAN :
        IF ~ok THEN markFailed(r)
        ELSE CASE fileTypeOf[r.fileID] = "image" ->
                    await(r, "imageDimensions")
               [] fileTypeOf[r.fileID] = "video" ->
                    update(r, videoItemData, "returned")
               [] fileTypeOf[r.fileID] = "livePhoto" ->
                    await(r, "livePhotoImage")

(* The image case that fetches the source again when the image does not   *)
(* load, instead of markFailed.                                            *)
ImageDimensionsSettled_retriesOnError ==
    \E r \in Suspended("imageDimensions"), ok \in BOOLEAN :
        IF ok THEN update(r, imageData, "returned")
        ELSE await(r, "renderableSourceURLs")

ImageDimensionsSettled ==
    \E r \in Suspended("imageDimensions"), ok \in BOOLEAN :
        IF ok THEN update(r, imageData, "returned") ELSE markFailed(r)

LivePhotoImageSettled ==
    \E r \in Suspended("livePhotoImage"), ok \in BOOLEAN :
        IF ok THEN await(r, "livePhotoDimensions") ELSE markFailed(r)

(* The live photo case without the update of the image component. *)
LivePhotoDimensionsSettled_noImageUpdate ==
    \E r \in Suspended("livePhotoDimensions"), ok \in BOOLEAN :
        IF ok THEN await(r, "livePhotoVideo") ELSE markFailed(r)

LivePhotoDimensionsSettled ==
    \E r \in Suspended("livePhotoDimensions"), ok \in BOOLEAN :
        IF ok THEN update(r, imageData, "livePhotoVideo") ELSE markFailed(r)

LivePhotoVideoSettled ==
    \E r \in Suspended("livePhotoVideo"), ok \in BOOLEAN :
        IF ok THEN update(r, livePhotoItemData, "returned")
        ELSE markFailed(r)

enqueueUpdates ==
    \/ ThumbnailURLSettled
    \/ ThumbnailDimensionsSettled
    \/ SourceURLsSettled
    \/ ImageDimensionsSettled
    \/ LivePhotoImageSettled
    \/ LivePhotoDimensionsSettled
    \/ LivePhotoVideoSettled

----------------------------------------------------------------------------

Init ==
    /\ fileTypeOf \in [Files -> FileType]
    /\ itemDataByFileID = FileViewerDataSourceState.itemDataByFileID
    /\ needsRefreshByFileID = FileViewerDataSourceState.needsRefreshByFileID
    /\ fileInfoExifByFileID = FileViewerDataSourceState.fileInfoExifByFileID
    /\ exifObserverByFileID = FileViewerDataSourceState.exifObserverByFileID
    /\ runs = EmptyBag
    /\ started = [f \in Files |-> 0]
    /\ thumbnailFetches = [f \in Files |-> 0]
    /\ extractions = EmptyBag
    /\ extractorCalls = [f \in Files |-> 0]
    /\ lastCall = [op |-> "init"]

Request == \E f \in Files, cb \in Callbacks : itemDataForFile(f, cb)

ForgetFailed == \E f \in Files : forgetFailedItemDataForFileID(f)

(* Everything but the logout. *)
NextInSession ==
    \/ Request
    \/ ForgetFailed
    \/ forgetFailedItems
    \/ enqueueUpdates

Next ==
    \/ NextInSession
    \/ logoutFileViewerDataSource

Spec == Init /\ [][Next]_vars

(* A session: no logout. *)
SpecInSession == Init /\ [][NextInSession]_vars

----------------------------------------------------------------------------
(* The Exif functions. *)

(* The most calls of extractRawExif in a behaviour, over all files. *)
MaxExtractions == 2

(* The observers the file info sidebar passes. *)
ExifObservers == {"observerA", "observerB"}

Undefined == "undefined"

(* What extractRawExif resolves to, and what parseExif returns. *)
RawExifTags == "tags"
ParsedExif == "parsed"

(* createPlaceholderFileInfoExif() *)
createPlaceholderFileInfoExif == [tags |-> Undefined, parsed |-> Undefined]

(* The number of calls of extractRawExif so far. *)
Extracted == Sum(extractorCalls, Files)

(* The observer updateNotifyAndReturn invokes:                             *)
(* _state.exifObserverByFileID.get(fileID)?.(exifData)                     *)
exifObserverOf(fileID) ==
    IF Has(exifObserverByFileID, fileID)
    THEN exifObserverByFileID[fileID]
    ELSE NoCallback

(* fileInfoExifForFile that sets the observer before it looks. *)
fileInfoExifForFile_registersFirst(fileID, observer) ==
    /\ exifObserverByFileID' =
           MapSet(exifObserverByFileID, fileID, observer)
    /\ IF Has(fileInfoExifByFileID, fileID)
       THEN lastCall' = [op |-> "fileInfoExifForFile",
                         fileID |-> fileID, observer |-> observer,
                         found |-> TRUE,
                         ret |-> fileInfoExifByFileID[fileID]]
       ELSE lastCall' = [op |-> "fileInfoExifForFile",
                         fileID |-> fileID, observer |-> observer,
                         found |-> FALSE]
    /\ UNCHANGED <<fileTypeOf, itemDataByFileID, needsRefreshByFileID,
                   fileInfoExifByFileID, runs, started, thumbnailFetches,
                   extractions, extractorCalls>>

(* fileInfoExifForFile(file, observer) *)
fileInfoExifForFile(fileID, observer) ==
    /\ IF Has(fileInfoExifByFileID, fileID)
       THEN /\ lastCall' = [op |-> "fileInfoExifForFile",
                            fileID |-> fileID, observer |-> observer,
                            found |-> TRUE,
                            ret |-> fileInfoExifByFileID[fileID]]
            /\ UNCHANGED exifObserverByFileID
       ELSE /\ exifObserverByFileID' =
                   MapSet(exifObserverByFileID, fileID, observer)
            /\ lastCall' = [op |-> "fileInfoExifForFile",
                            fileID |-> fileID, observer |-> observer,
                            found |-> FALSE]
    /\ UNCHANGED <<fileTypeOf, itemDataByFileID, needsRefreshByFileID,
                   fileInfoExifByFileID, runs, started, thumbnailFetches,
                   extractions, extractorCalls>>

(* updateNotifyAndReturn(exifData), in a call for the file. *)
updateNotifyAndReturn(fileID, exifData) ==
    fileInfoExifByFileID' = MapSet(fileInfoExifByFileID, fileID, exifData)

(* updateFileInfoExifIfNeeded that looks for the blob before the type. *)
updateFileInfoExifIfNeeded_blobFirst(fileID, hasBlob) ==
    LET call(did, observed) ==
            [op |-> "updateFileInfoExifIfNeeded", fileID |-> fileID,
             hasBlob |-> hasBlob, resumed |-> FALSE, did |-> did,
             observed |-> observed, stale |-> FALSE]
    IN
    /\ IF Has(fileInfoExifByFileID, fileID)
       THEN /\ lastCall' = call("ignored", NoCallback)
            /\ UNCHANGED <<fileInfoExifByFileID, extractions,
                           extractorCalls>>
       ELSE IF hasBlob
       THEN /\ Extracted < MaxExtractions
            /\ extractions' =
                   extractions (+) One([fileID |-> fileID, stale |-> FALSE])
            /\ extractorCalls' = [extractorCalls EXCEPT ![fileID] = @ + 1]
            /\ lastCall' = call("extract", NoCallback)
            /\ UNCHANGED fileInfoExifByFileID
       ELSE IF fileTypeOf[fileID] = "video"
       THEN /\ updateNotifyAndReturn(fileID,
                                     createPlaceholderFileInfoExif)
            /\ lastCall' = call("placeholder", exifObserverOf(fileID))
            /\ UNCHANGED <<extractions, extractorCalls>>
       ELSE /\ lastCall' = call("ignored", NoCallback)
            /\ UNCHANGED <<fileInfoExifByFileID, extractions,
                           extractorCalls>>
    /\ UNCHANGED <<fileTypeOf, itemDataByFileID, needsRefreshByFileID,
                   exifObserverByFileID, runs, started, thumbnailFetches>>

(* updateFileInfoExifIfNeeded that stores the placeholder when the         *)
(* original image is not there yet.                                        *)
updateFileInfoExifIfNeeded_placeholderWithoutBlob(fileID, hasBlob) ==
    LET call(did, observed) ==
            [op |-> "updateFileInfoExifIfNeeded", fileID |-> fileID,
             hasBlob |-> hasBlob, resumed |-> FALSE, did |-> did,
             observed |-> observed, stale |-> FALSE]
    IN
    /\ IF Has(fileInfoExifByFileID, fileID)
       THEN /\ lastCall' = call("ignored", NoCallback)
            /\ UNCHANGED <<fileInfoExifByFileID, extractions,
                           extractorCalls>>
       ELSE IF fileTypeOf[fileID] = "video" \/ ~hasBlob
       THEN /\ updateNotifyAndReturn(fileID,
                                     createPlaceholderFileInfoExif)
            /\ lastCall' = call("placeholder", exifObserverOf(fileID))
            /\ UNCHANGED <<extractions, extractorCalls>>
       ELSE /\ Extracted < MaxExtractions
            /\ extractions' =
                   extractions (+) One([fileID |-> fileID, stale |-> FALSE])
            /\ extractorCalls' = [extractorCalls EXCEPT ![fileID] = @ + 1]
            /\ lastCall' = call("extract", NoCallback)
            /\ UNCHANGED fileInfoExifByFileID
    /\ UNCHANGED <<fileTypeOf, itemDataByFileID, needsRefreshByFileID,
                   exifObserverByFileID, runs, started, thumbnailFetches>>

(* updateFileInfoExifIfNeeded(itemData), up to its return or to the await  *)
(* of extractRawExif.  `hasBlob` is whether itemData.originalImageBlob is  *)
(* there.                                                                  *)
updateFileInfoExifIfNeeded(fileID, hasBlob) ==
    LET call(did, observed) ==
            [op |-> "updateFileInfoExifIfNeeded", fileID |-> fileID,
             hasBlob |-> hasBlob, resumed |-> FALSE, did |-> did,
             observed |-> observed, stale |-> FALSE]
    IN
    /\ IF Has(fileInfoExifByFileID, fileID)
       THEN /\ lastCall' = call("ignored", NoCallback)
            /\ UNCHANGED <<fileInfoExifByFileID, extractions,
                           extractorCalls>>
       ELSE IF fileTypeOf[fileID] = "video"
       THEN /\ updateNotifyAndReturn(fileID,
                                     createPlaceholderFileInfoExif)
            /\ lastCall' = call("placeholder", exifObserverOf(fileID))
            /\ UNCHANGED <<extractions, extractorCalls>>
       ELSE IF ~hasBlob
       THEN /\ lastCall' = call("ignored", NoCallback)
            /\ UNCHANGED <<fileInfoExifByFileID, extractions,
                           extractorCalls>>
       ELSE /\ Extracted < MaxExtractions
            /\ extractions' =
                   extractions (+) One([fileID |-> fileID, stale |-> FALSE])
            /\ extractorCalls' = [extractorCalls EXCEPT ![fileID] = @ + 1]
            /\ lastCall' = call("extract", NoCallback)
            /\ UNCHANGED fileInfoExifByFileID
    /\ UNCHANGED <<fileTypeOf, itemDataByFileID, needsRefreshByFileID,
                   exifObserverByFileID, runs, started, thumbnailFetches>>

ExifOutcomes == {"parsed", "extractRawExif throws", "parseExif throws"}

(* The resumption with a catch that saves nothing. *)
ExtractRawExifSettled_noSaveOnError ==
    \E x \in BagToSet(extractions), outcome \in ExifOutcomes :
        /\ IF outcome = "parsed"
           THEN updateNotifyAndReturn(x.fileID,
                    [tags |-> RawExifTags, parsed |-> ParsedExif])
           ELSE UNCHANGED fileInfoExifByFileID
        /\ extractions' = extractions (-) One(x)
        /\ lastCall' = [op |-> "updateFileInfoExifIfNeeded",
                        fileID |-> x.fileID, hasBlob |-> TRUE,
                        resumed |-> TRUE,
                        did |-> IF outcome = "parsed" THEN "parsed"
                                ELSE "ignored",
                        observed |-> IF outcome = "parsed"
                                     THEN exifObserverOf(x.fileID)
                                     ELSE NoCallback,
                        stale |-> x.stale, outcome |-> outcome]
        /\ UNCHANGED <<fileTypeOf, itemDataByFileID, needsRefreshByFileID,
                       exifObserverByFileID, runs, started, thumbnailFetches,
                       extractorCalls>>

(* A call of updateFileInfoExifIfNeeded resumes: extractRawExif resolved   *)
(* and parseExif returned, or one of them threw.                           *)
ExtractRawExifSettled ==
    \E x \in BagToSet(extractions), outcome \in ExifOutcomes :
        /\ updateNotifyAndReturn(x.fileID,
               IF outcome = "parsed"
               THEN [tags |-> RawExifTags, parsed |-> ParsedExif]
               ELSE createPlaceholderFileInfoExif)
        /\ extractions' = extractions (-) One(x)
        /\ lastCall' = [op |-> "updateFileInfoExifIfNeeded",
                        fileID |-> x.fileID, hasBlob |-> TRUE,
                        resumed |-> TRUE,
                        did |-> IF outcome = "parsed" THEN "parsed"
                                ELSE "placeholder",
                        observed |-> exifObserverOf(x.fileID),
                        stale |-> x.stale, outcome |-> outcome]
        /\ UNCHANGED <<fileTypeOf, itemDataByFileID, needsRefreshByFileID,
                       exifObserverByFileID, runs, started, thumbnailFetches,
                       extractorCalls>>

(* A forget that clears the Exif maps, like forgetExif. *)
forgetExifForItemData_clearsAll(fileID) ==
    /\ fileInfoExifByFileID' = EmptyMap
    /\ exifObserverByFileID' = EmptyMap
    /\ lastCall' = [op |-> "forgetExifForItemData", fileID |-> fileID,
                    removed |-> Has(fileInfoExifByFileID, fileID)]
    /\ UNCHANGED <<fileTypeOf, itemDataByFileID, needsRefreshByFileID, runs,
                   started, thumbnailFetches, extractions, extractorCalls>>

(* forgetExifForItemData({ fileID }) *)
forgetExifForItemData(fileID) ==
    /\ fileInfoExifByFileID' = Delete(fileInfoExifByFileID, fileID)
    /\ exifObserverByFileID' = Delete(exifObserverByFileID, fileID)
    /\ lastCall' = [op |-> "forgetExifForItemData", fileID |-> fileID,
                    removed |-> Has(fileInfoExifByFileID, fileID)]
    /\ UNCHANGED <<fileTypeOf, itemDataByFileID, needsRefreshByFileID, runs,
                   started, thumbnailFetches, extractions, extractorCalls>>

(* forgetExif() *)
forgetExif ==
    /\ fileInfoExifByFileID' = EmptyMap
    /\ exifObserverByFileID' = EmptyMap
    /\ lastCall' = [op |-> "forgetExif"]
    /\ UNCHANGED <<fileTypeOf, itemDataByFileID, needsRefreshByFileID, runs,
                   started, thumbnailFetches, extractions, extractorCalls>>

ExifQuery ==
    \E f \in Files, observer \in ExifObservers :
        fileInfoExifForFile(f, observer)

ExifUpdate ==
    \E f \in Files, hasBlob \in BOOLEAN :
        updateFileInfoExifIfNeeded(f, hasBlob)

ForgetExifForItemData == \E f \in Files : forgetExifForItemData(f)

(* The Exif functions, in a session. *)
NextExifInSession ==
    \/ ExifQuery
    \/ ExifUpdate
    \/ ExtractRawExifSettled
    \/ ForgetExifForItemData
    \/ forgetExif

NextExif ==
    \/ NextExifInSession
    \/ logoutFileViewerDataSource

(* The Exif functions alone. *)
SpecExif == Init /\ [][NextExif]_vars

----------------------------------------------------------------------------
(* What a step was, read from lastCall'. *)

Requested(fileID) ==
    lastCall'.op = "itemDataForFile" /\ lastCall'.fileID = fileID

(* A run of enqueueUpdates for the file resumed. *)
Resumed(fileID) ==
    lastCall'.op = "enqueueUpdates" /\ lastCall'.fileID = fileID

(* A run of enqueueUpdates for the file wrote the file's entry. *)
Wrote(fileID) == Resumed(fileID) /\ lastCall'.did # "await"

FetchFailed(fileID) ==
    Has(itemDataByFileID, fileID)
        /\ Truthy(itemDataByFileID[fileID], "fetchFailed")

----------------------------------------------------------------------------
(* C1: in a session, a request for a file with no cache entry inserts the  *)
(* placeholder {fileID, fileType, isContentLoading: true} and starts       *)
(* exactly one run, which issues one thumbnail fetch; a request made       *)
(* while a run for the file is in flight starts no run and issues no       *)
(* thumbnail fetch, whatever else is interleaved.                          *)
C1_RequestStartsOneRun ==
    [][\A f \in Files : Requested(f) =>
          /\ ~Has(itemDataByFileID, f) =>
                /\ itemDataByFileID'[f] =
                       [fileID |-> f, fileType |-> fileTypeOf[f],
                        isContentLoading |-> TRUE]
                /\ InFlight(f)' = InFlight(f) + 1
                /\ started'[f] = started[f] + 1
                /\ thumbnailFetches'[f] = thumbnailFetches[f] + 1
          /\ InFlight(f) > 0 =>
                /\ InFlight(f)' = InFlight(f)
                /\ started'[f] = started[f]
                /\ thumbnailFetches'[f] = thumbnailFetches[f]
      ]_vars

(* A request was made for a file while its run was in flight, and the      *)
(* file still has had one thumbnail fetch.                                 *)
C1_Witness ==
    /\ lastCall.op = "itemDataForFile"
    /\ ~lastCall.enqueued
    /\ InFlight(lastCall.fileID) = 1
    /\ thumbnailFetches[lastCall.fileID] = 1

(* C2: at most one run of enqueueUpdates is in flight for any file, under  *)
(* any interleaving of the requests, the forgets, the logout and the       *)
(* steps of the runs.                                                      *)
C2_AtMostOneRunPerFile == \A f \in Files : InFlight(f) <= 1

(* C3: once the entry of a file has fetchFailed, no run of enqueueUpdates  *)
(* writes the entry of that file while the entry is there.                 *)
C3_NoWriteOnceFailed ==
    [][\A f \in Files : FetchFailed(f) => ~Wrote(f)]_vars

(* The step was update(itemData) in a run of the file, on an entry that is *)
(* as the run last left it.                                                *)
Updated(fileID) ==
    /\ Resumed(fileID)
    /\ lastCall'.did = "update"
    /\ Has(itemDataByFileID, fileID)
    /\ itemDataByFileID[fileID] = lastCall'.wrote

Kept(fileID, fields) ==
    \A k \in fields \cap DOMAIN itemDataByFileID[fileID] :
        k \in DOMAIN itemDataByFileID'[fileID]

ContentFields ==
    {"src", "width", "height", "imageURL", "originalImageBlob", "videoURL",
     "isContentZoomable"}

(* C4, as claimed: an update keeps every field the entry had, and removes  *)
(* isContentLoading only when it is the last update of the run.            *)
C4_UpdateKeepsEveryField ==
    [][\A f \in Files : Updated(f) =>
          /\ Kept(f, ContentFields)
          /\ ~Kept(f, {"isContentLoading"}) => lastCall'.returned
      ]_vars

(* C4, amended: an update keeps src, width and height unless the file is a *)
(* video, whose last update leaves videoURL alone; it keeps imageURL,      *)
(* originalImageBlob and videoURL; only the update of the thumbnail stage  *)
(* leaves isContentZoomable and isContentLoading in the entry, so the      *)
(* first update of the original stage removes both, which for a live photo *)
(* is the update of the image component, before the video is awaited.      *)
C4_UpdateKeepsContent ==
    [][\A f \in Files : Updated(f) =>
          LET after == itemDataByFileID'[f]
              thumbnailStage == lastCall'.resumed = "thumbnailDimensions"
          IN /\ fileTypeOf[f] # "video" => Kept(f, {"src", "width", "height"})
             /\ Kept(f, {"imageURL", "originalImageBlob", "videoURL"})
             /\ (fileTypeOf[f] = "video" /\ ~thumbnailStage) =>
                    DOMAIN after = {"fileID", "fileType", "videoURL"}
             /\ Has(after, "isContentZoomable") <=> thumbnailStage
             /\ Has(after, "isContentLoading") <=> thumbnailStage
             /\ (fileTypeOf[f] = "livePhoto"
                    /\ lastCall'.resumed = "livePhotoDimensions") =>
                    ~lastCall'.returned /\ ~Has(after, "isContentLoading")
      ]_vars

(* The last update of a video took src out of the entry the thumbnail      *)
(* stage had written.                                                      *)
C4_Witness ==
    /\ lastCall.op = "enqueueUpdates"
    /\ lastCall.did = "update"
    /\ fileTypeOf[lastCall.fileID] = "video"
    /\ lastCall.returned
    /\ Has(lastCall.wrote, "src")
    /\ ~Has(itemDataByFileID[lastCall.fileID], "src")

(* The last step was markFailed in a run resumed at one of the awaits. *)
Failed(awaits) ==
    /\ lastCall.op = "enqueueUpdates"
    /\ lastCall.did = "markFailed"
    /\ lastCall.resumed \in awaits

ThumbnailStage == {"renderableThumbnailURL", "thumbnailDimensions"}

Absent(object, fields) == \A k \in fields : ~Has(object, k)

(* C5: when the thumbnail stage fails, the entry of the file has           *)
(* fetchFailed, and no src, width, height or isContentLoading.             *)
C5_ThumbnailFailure ==
    Failed(ThumbnailStage) =>
        /\ Has(itemDataByFileID, lastCall.fileID)
        /\ LET itemData == itemDataByFileID[lastCall.fileID]
           IN /\ Truthy(itemData, "fetchFailed")
              /\ Absent(itemData,
                        {"src", "width", "height", "isContentLoading"})

(* The dimensions of the thumbnail could not be resolved. *)
C5_Witness == Failed({"thumbnailDimensions"})

(* C6: when the thumbnail stage of an image succeeds and its original      *)
(* stage fails, the entry keeps src, width and height of the thumbnail,    *)
(* has fetchFailed, and has no isContentLoading, imageURL or               *)
(* originalImageBlob.                                                      *)
C6_ImageOriginalFailure ==
    (Failed({"renderableSourceURLs", "imageDimensions"})
        /\ fileTypeOf[lastCall.fileID] = "image") =>
        /\ Has(itemDataByFileID, lastCall.fileID)
        /\ LET itemData == itemDataByFileID[lastCall.fileID]
           IN /\ Truthy(itemData, "fetchFailed")
              /\ Has(itemData, "src") /\ itemData.src = ThumbnailURL
              /\ Has(itemData, "width")
              /\ itemData.width = naturalWidth(ThumbnailURL)
              /\ Has(itemData, "height")
              /\ itemData.height = naturalHeight(ThumbnailURL)
              /\ Absent(itemData, {"isContentLoading", "imageURL",
                                   "originalImageBlob"})

(* The dimensions of the original of an image could not be resolved. *)
C6_Witness ==
    Failed({"imageDimensions"}) /\ fileTypeOf[lastCall.fileID] = "image"

(* C7: when the image of a live photo resolves and its video rejects, the  *)
(* entry has imageURL, originalImageBlob, src, width and height of the     *)
(* image, has fetchFailed, and has no videoURL.                            *)
C7_LivePhotoVideoFailure ==
    Failed({"livePhotoVideo"}) =>
        /\ Has(itemDataByFileID, lastCall.fileID)
        /\ LET itemData == itemDataByFileID[lastCall.fileID]
           IN /\ Truthy(itemData, "fetchFailed")
              /\ Has(itemData, "imageURL")
              /\ itemData.imageURL = OriginalURL
              /\ Has(itemData, "originalImageBlob")
              /\ itemData.originalImageBlob = OriginalImageBlob
              /\ Has(itemData, "src") /\ itemData.src = OriginalURL
              /\ Has(itemData, "width")
              /\ itemData.width = naturalWidth(OriginalURL)
              /\ Has(itemData, "height")
              /\ itemData.height = naturalHeight(OriginalURL)
              /\ Absent(itemData, {"videoURL"})

(* The video of a live photo rejected. *)
C7_Witness ==
    Failed({"livePhotoVideo"}) /\ fileTypeOf[lastCall.fileID] = "livePhoto"

Forgot(fileID) ==
    lastCall'.op = "forgetFailedItemDataForFileID"
        /\ lastCall'.fileID = fileID

(* C8: forgetFailedItemDataForFileID leaves the map as it is when the      *)
(* file has no entry or an entry without fetchFailed, and removes the      *)
(* entry, and no other, when it has fetchFailed; then the file has no      *)
(* entry until it is requested, and that request inserts the placeholder   *)
(* and starts a run at the thumbnail fetch, the one run of the file.       *)
C8_ForgetFailedThenRetry ==
    [][\A f \in Files :
          /\ Forgot(f) =>
                IF FetchFailed(f)
                THEN /\ ~Has(itemDataByFileID', f)
                     /\ DOMAIN itemDataByFileID' =
                            (DOMAIN itemDataByFileID) \ {f}
                     /\ \A g \in DOMAIN itemDataByFileID' :
                            itemDataByFileID'[g] = itemDataByFileID[g]
                ELSE itemDataByFileID' = itemDataByFileID
          /\ (~Has(itemDataByFileID, f) /\ Has(itemDataByFileID', f)) =>
                /\ Requested(f)
                /\ lastCall'.enqueued
                /\ itemDataByFileID'[f] =
                       [fileID |-> f, fileType |-> fileTypeOf[f],
                        isContentLoading |-> TRUE]
                /\ InFlight(f) = 0
                /\ \A r \in RunsOf(f)' : r.at = "renderableThumbnailURL"
                /\ InFlight(f)' = 1
                /\ thumbnailFetches'[f] = thumbnailFetches[f] + 1
      ]_vars

(* A file whose fetch failed was forgotten, and requested again: its       *)
(* second run is at the thumbnail fetch.                                   *)
C8_Witness ==
    /\ lastCall.op = "itemDataForFile"
    /\ lastCall.enqueued
    /\ started[lastCall.fileID] = 2
    /\ thumbnailFetches[lastCall.fileID] = 2
    /\ \E r \in RunsOf(lastCall.fileID) : r.at = "renderableThumbnailURL"

C10_ErrorResetsEntry ==
    (lastCall.op = "enqueueUpdates" /\ lastCall.did = "markFailed") =>
        ~Has(itemDataByFileID, lastCall.fileID)

----------------------------------------------------------------------------
(* The entries of an image in the order of its run. *)

thumbnailEntry(fileID) ==
    [fileID |-> fileID, fileType |-> fileTypeOf[fileID],
     src |-> ThumbnailURL, width |-> naturalWidth(ThumbnailURL),
     height |-> naturalHeight(ThumbnailURL),
     isContentLoading |-> TRUE, isContentZoomable |-> FALSE]

imageEntry(fileID) ==
    [fileID |-> fileID, fileType |-> fileTypeOf[fileID],
     src |-> OriginalURL, width |-> naturalWidth(OriginalURL),
     height |-> naturalHeight(OriginalURL),
     imageURL |-> OriginalURL, originalImageBlob |-> OriginalImageBlob]

(* C11: in a session, the run of an image whose stages succeed takes the   *)
(* entry from the placeholder to the thumbnail entry (src, width, height,  *)
(* isContentLoading: true, isContentZoomable: false) and from there to the *)
(* entry of the original (src, width, height, imageURL,                    *)
(* originalImageBlob, and no isContentLoading); it invokes the needsRefresh *)
(* callback once with each of the two updates, and at no other step, so    *)
(* that it has invoked it twice when it returns.                           *)
C11_ImageSequence ==
    [][\A f \in Files :
          (Resumed(f) /\ fileTypeOf[f] = "image"
              /\ lastCall'.did # "markFailed") =>
             LET before == itemDataByFileID[f]
                 after == itemDataByFileID'[f]
                 at == lastCall'.resumed
             IN CASE at = "renderableThumbnailURL" ->
                       /\ before = placeholder(f) /\ after = before
                       /\ lastCall'.refreshed = NoCallback
                       /\ lastCall'.refreshes = 0
                  [] at = "thumbnailDimensions" ->
                       /\ before = placeholder(f)
                       /\ after = thumbnailEntry(f)
                       /\ lastCall'.refreshed = needsRefreshByFileID[f]
                       /\ lastCall'.refreshes = 1
                       /\ ~lastCall'.returned
                  [] at = "renderableSourceURLs" ->
                       /\ before = thumbnailEntry(f) /\ after = before
                       /\ lastCall'.refreshed = NoCallback
                       /\ lastCall'.refreshes = 1
                  [] at = "imageDimensions" ->
                       /\ before = thumbnailEntry(f)
                       /\ after = imageEntry(f)
                       /\ lastCall'.refreshed = needsRefreshByFileID[f]
                       /\ lastCall'.refreshes = 2
                       /\ lastCall'.returned
                  [] OTHER -> FALSE
      ]_vars

(* The run of an image has returned after its second update, with two      *)
(* callbacks invoked.                                                      *)
C11_Witness ==
    /\ lastCall.op = "enqueueUpdates"
    /\ lastCall.resumed = "imageDimensions"
    /\ lastCall.did = "update"
    /\ lastCall.returned
    /\ lastCall.refreshes = 2
    /\ itemDataByFileID[lastCall.fileID] = imageEntry(lastCall.fileID)

ExifUpdated(fileID) ==
    lastCall'.op = "updateFileInfoExifIfNeeded" /\ lastCall'.fileID = fileID

(* C12: right after the logout the four maps are empty, and from then on   *)
(* a file gets an item entry only by a request made after the logout (or   *)
(* by the run that request started), and an Exif entry only by a call of   *)
(* updateFileInfoExifIfNeeded made after the logout: never by a run or an  *)
(* extraction that was in flight at the logout.                            *)
C12_LogoutDiscardsState ==
    [][/\ lastCall'.op = "logoutFileViewerDataSource" =>
             /\ itemDataByFileID' = EmptyMap
             /\ needsRefreshByFileID' = EmptyMap
             /\ fileInfoExifByFileID' = EmptyMap
             /\ exifObserverByFileID' = EmptyMap
       /\ \A f \in Files :
             /\ (~Has(itemDataByFileID, f) /\ Has(itemDataByFileID', f)) =>
                    \/ Requested(f)
                    \/ Resumed(f) /\ ~lastCall'.stale
             /\ (~Has(fileInfoExifByFileID, f)
                    /\ Has(fileInfoExifByFileID', f)) =>
                    ExifUpdated(f) /\ ~lastCall'.stale
      ]_vars

ExifQueried(fileID) ==
    lastCall'.op = "fileInfoExifForFile" /\ lastCall'.fileID = fileID

(* The step stored an Exif entry for the file. *)
ExifCommitted(fileID) ==
    ExifUpdated(fileID) /\ lastCall'.did \in {"parsed", "placeholder"}

(* C13: once a file has an Exif entry, no call of                          *)
(* updateFileInfoExifIfNeeded for it, and no resumption of one, stores an  *)
(* entry for it or changes anything, for as long as the entry is there.    *)
C13_ExifWrittenOnce ==
    [][\A f \in Files :
          (Has(fileInfoExifByFileID, f) /\ ExifUpdated(f)) =>
              /\ ~ExifCommitted(f)
              /\ fileInfoExifByFileID' = fileInfoExifByFileID
              /\ exifObserverByFileID' = exifObserverByFileID
      ]_vars

(* C14: an observer is invoked only by the step that gives the file its    *)
(* Exif entry, so an observer registered while there was no entry is       *)
(* invoked once and never again.                                           *)
C14_ObserverInvokedOnce ==
    [][\A f \in Files :
          (ExifUpdated(f) /\ lastCall'.observed # NoCallback) =>
              /\ ~Has(fileInfoExifByFileID, f)
              /\ Has(fileInfoExifByFileID', f)
      ]_vars

(* C15: fileInfoExifForFile for a file with an Exif entry returns the      *)
(* entry and leaves the observers as they are; for a file without one it   *)
(* returns undefined and makes the observer passed the observer of the     *)
(* file, in the place of any other, leaving the observers of the other     *)
(* files alone.  It never changes the Exif entries.                        *)
C15_ExifQuery ==
    [][\A f \in Files : ExifQueried(f) =>
          /\ fileInfoExifByFileID' = fileInfoExifByFileID
          /\ IF Has(fileInfoExifByFileID, f)
             THEN /\ lastCall'.found
                  /\ lastCall'.ret = fileInfoExifByFileID[f]
                  /\ exifObserverByFileID' = exifObserverByFileID
             ELSE /\ ~lastCall'.found
                  /\ DOMAIN exifObserverByFileID' =
                         (DOMAIN exifObserverByFileID) \cup {f}
                  /\ exifObserverByFileID'[f] = lastCall'.observer
                  /\ \A g \in (DOMAIN exifObserverByFileID) \ {f} :
                         exifObserverByFileID'[g] = exifObserverByFileID[g]
      ]_vars

(* A query found the entry, and the observer of the file is still the one  *)
(* of an earlier query, not the one passed.                                *)
C15_Witness ==
    /\ lastCall.op = "fileInfoExifForFile"
    /\ lastCall.found
    /\ Has(exifObserverByFileID, lastCall.fileID)
    /\ exifObserverByFileID[lastCall.fileID] # lastCall.observer

(* C16: updateFileInfoExifIfNeeded for a video without an Exif entry       *)
(* stores the placeholder {tags: undefined, parsed: undefined} and invokes *)
(* the observer of the file, with or without an originalImageBlob, and     *)
(* extractRawExif is never called for a video.                             *)
C16_VideoPlaceholder ==
    /\ [](\A f \in Files :
             fileTypeOf[f] = "video" =>
                 /\ extractorCalls[f] = 0
                 /\ \A x \in BagToSet(extractions) : x.fileID # f)
    /\ [][\A f \in Files :
             (ExifUpdated(f) /\ fileTypeOf[f] = "video"
                 /\ ~Has(fileInfoExifByFileID, f)) =>
                 /\ Has(fileInfoExifByFileID', f)
                 /\ fileInfoExifByFileID'[f] =
                        [tags |-> Undefined, parsed |-> Undefined]
                 /\ IF Has(exifObserverByFileID, f)
                    THEN lastCall'.observed = exifObserverByFileID[f]
                    ELSE lastCall'.observed = NoCallback
                 /\ extractorCalls' = extractorCalls
                 /\ extractions' = extractions
         ]_vars

(* A video with an originalImageBlob got the placeholder, and its observer *)
(* was invoked.                                                            *)
C16_Witness ==
    /\ lastCall.op = "updateFileInfoExifIfNeeded"
    /\ fileTypeOf[lastCall.fileID] = "video"
    /\ lastCall.hasBlob
    /\ lastCall.did = "placeholder"
    /\ lastCall.observed \in ExifObservers
    /\ extractorCalls[lastCall.fileID] = 0

(* C17: when extractRawExif or parseExif throws, the file gets the         *)
(* placeholder {tags: undefined, parsed: undefined} as its Exif entry and  *)
(* the observer of the file is invoked; and for as long as a file has an   *)
(* Exif entry, extractRawExif is not called for it.                        *)
C17_ExtractionFailure ==
    [][\A f \in Files :
          /\ (ExifUpdated(f) /\ lastCall'.resumed
                 /\ lastCall'.outcome # "parsed") =>
                 /\ Has(fileInfoExifByFileID', f)
                 /\ fileInfoExifByFileID'[f] =
                        [tags |-> Undefined, parsed |-> Undefined]
                 /\ IF Has(exifObserverByFileID, f)
                    THEN lastCall'.observed = exifObserverByFileID[f]
                    ELSE lastCall'.observed = NoCallback
          /\ Has(fileInfoExifByFileID, f) =>
                 extractorCalls'[f] = extractorCalls[f]
      ]_vars

(* parseExif threw, the placeholder is the entry, the observer was         *)
(* invoked, and a later call for the file was ignored.                     *)
C17_Witness ==
    /\ lastCall.op = "updateFileInfoExifIfNeeded"
    /\ ~lastCall.resumed
    /\ lastCall.hasBlob
    /\ lastCall.did = "ignored"
    /\ fileTypeOf[lastCall.fileID] # "video"
    /\ extractorCalls[lastCall.fileID] = 1
    /\ extractions = EmptyBag
    /\ Has(fileInfoExifByFileID, lastCall.fileID)
    /\ fileInfoExifByFileID[lastCall.fileID] =
           createPlaceholderFileInfoExif

(* The callbacks a run has invoked once it has caught an error at one of   *)
(* its awaits: one for each update before it, and one for markFailed.      *)
refreshesAtFailure(at) ==
    IF at \in ThumbnailStage THEN 1
    ELSE IF at = "livePhotoVideo" THEN 3
    ELSE 2

(* C18: in a session, a run that catches an error at any of its awaits     *)
(* returns with the entry of the file having fetchFailed and no            *)
(* isContentLoading, and invokes the needsRefresh callback of the file     *)
(* once for the failure; and no file without a run in flight has an entry  *)
(* with isContentLoading.                                                  *)
C18_FailureBecomesState ==
    /\ Failed(AwaitPoints) =>
          /\ Has(itemDataByFileID, lastCall.fileID)
          /\ Truthy(itemDataByFileID[lastCall.fileID], "fetchFailed")
          /\ ~Has(itemDataByFileID[lastCall.fileID], "isContentLoading")
          /\ lastCall.returned
          /\ InFlight(lastCall.fileID) = 0
          /\ lastCall.refreshed \in Callbacks
          /\ lastCall.refreshed = needsRefreshByFileID[lastCall.fileID]
          /\ lastCall.refreshes = refreshesAtFailure(lastCall.resumed)
    /\ \A f \in Files :
          (Has(itemDataByFileID, f) /\ InFlight(f) = 0) =>
              ~Has(itemDataByFileID[f], "isContentLoading")

(* The image of a live photo rejected, after the thumbnail. *)
C18_Witness ==
    /\ Failed({"livePhotoImage"})
    /\ lastCall.refreshes = 2
    /\ Truthy(itemDataByFileID[lastCall.fileID], "fetchFailed")

(* C19: forgetFailedItems removes every entry with fetchFailed and leaves  *)
(* every other entry, the runs and the callbacks as they are.              *)
C19_ForgetFailedItems ==
    [][lastCall'.op = "forgetFailedItems" =>
          /\ \A f \in Files :
                IF FetchFailed(f)
                THEN ~Has(itemDataByFileID', f)
                ELSE /\ Has(itemDataByFileID', f) <=> Has(itemDataByFileID, f)
                     /\ Has(itemDataByFileID, f) =>
                            itemDataByFileID'[f] = itemDataByFileID[f]
          /\ runs' = runs
          /\ needsRefreshByFileID' = needsRefreshByFileID
      ]_vars

(* forgetFailedItems removed the entry of one file and left the entry of   *)
(* another, whose run is in flight.                                        *)
C19_Witness ==
    /\ lastCall.op = "forgetFailedItems"
    /\ \E f, g \in lastCall.keys :
          /\ ~Has(itemDataByFileID, f)
          /\ Has(itemDataByFileID, g)
          /\ InFlight(g) = 1
          /\ Truthy(itemDataByFileID[g], "isContentLoading")

(* C20, as claimed: a file with a run in flight has an entry with          *)
(* isContentLoading: true.                                                 *)
C20_LoadingWhileInFlight ==
    \A f \in Files :
        InFlight(f) > 0 =>
            /\ Has(itemDataByFileID, f)
            /\ Truthy(itemDataByFileID[f], "isContentLoading")

(* C20, amended: in a session, a file with a run in flight has an entry    *)
(* without fetchFailed, and the entry has isContentLoading: true unless    *)
(* the run awaits the video of a live photo: then the entry has the image  *)
(* fields, no videoURL and no isContentLoading.                            *)
C20_LoadingUntilLivePhotoImage ==
    \A f \in Files : \A r \in RunsOf(f) :
        /\ Has(itemDataByFileID, f)
        /\ ~Has(itemDataByFileID[f], "fetchFailed")
        /\ IF r.at = "livePhotoVideo"
           THEN /\ fileTypeOf[f] = "livePhoto"
                /\ ~Has(itemDataByFileID[f], "isContentLoading")
                /\ Has(itemDataByFileID[f], "imageURL")
                /\ Has(itemDataByFileID[f], "originalImageBlob")
                /\ ~Has(itemDataByFileID[f], "videoURL")
           ELSE Truthy(itemDataByFileID[f], "isContentLoading")

(* The run of a live photo awaits the video. *)
C20_Witness ==
    \E f \in Files : \E r \in RunsOf(f) :
        /\ r.at = "livePhotoVideo"
        /\ Has(itemDataByFileID, f)
        /\ ~Has(itemDataByFileID[f], "isContentLoading")

----------------------------------------------------------------------------
(* The entries of a video and of a live photo once their runs return. *)

videoEntry(fileID) ==
    [fileID |-> fileID, fileType |-> fileTypeOf[fileID],
     videoURL |-> VideoURL]

livePhotoEntry(fileID) ==
    [fileID |-> fileID, fileType |-> fileTypeOf[fileID],
     src |-> OriginalURL, width |-> naturalWidth(OriginalURL),
     height |-> naturalHeight(OriginalURL),
     imageURL |-> OriginalURL, originalImageBlob |-> OriginalImageBlob,
     videoURL |-> VideoURL]

(* C21: in a session, a run invokes the needsRefresh callback of its file  *)
(* in the step that writes the entry and in no other step, and in the      *)
(* order of the stages: the thumbnail update is the first notification of  *)
(* the run and finds the placeholder; the update of the original stage     *)
(* (image, video, or image component of a live photo) is the second and    *)
(* finds the thumbnail entry; the update with the video of a live photo is *)
(* the third and finds the image entry; a failure notifies last.           *)
C21_NotificationsInOrder ==
    [][\A f \in Files : Resumed(f) =>
          LET at == lastCall'.resumed
              n == lastCall'.refreshes
              found == lastCall'.wrote
              after == itemDataByFileID'[f]
          IN IF lastCall'.did = "await"
             THEN /\ lastCall'.refreshed = NoCallback
                  /\ itemDataByFileID' = itemDataByFileID
                  /\ at \in {"renderableThumbnailURL", "renderableSourceURLs",
                             "livePhotoImage"}
             ELSE /\ lastCall'.refreshed \in Callbacks
                  /\ lastCall'.refreshed = needsRefreshByFileID[f]
                  /\ Has(itemDataByFileID', f)
                  /\ IF lastCall'.did = "markFailed"
                     THEN /\ n = refreshesAtFailure(at)
                          /\ Truthy(after, "fetchFailed")
                          /\ lastCall'.returned
                     ELSE CASE at = "thumbnailDimensions" ->
                                 /\ n = 1 /\ found = placeholder(f)
                                 /\ after = thumbnailEntry(f)
                            [] at = "imageDimensions" ->
                                 /\ n = 2 /\ found = thumbnailEntry(f)
                                 /\ after = imageEntry(f)
                            [] at = "renderableSourceURLs" ->
                                 /\ n = 2 /\ found = thumbnailEntry(f)
                                 /\ after = videoEntry(f)
                            [] at = "livePhotoDimensions" ->
                                 /\ n = 2 /\ found = thumbnailEntry(f)
                                 /\ after = imageEntry(f)
                            [] at = "livePhotoVideo" ->
                                 /\ n = 3 /\ found = imageEntry(f)
                                 /\ after = livePhotoEntry(f)
                            [] OTHER -> FALSE
      ]_vars

(* The run of a live photo returned with its third notification, after     *)
(* the thumbnail one and the image one.                                    *)
C21_Witness ==
    /\ lastCall.op = "enqueueUpdates"
    /\ lastCall.resumed = "livePhotoVideo"
    /\ lastCall.did = "update"
    /\ lastCall.refreshes = 3
    /\ lastCall.refreshed \in Callbacks
    /\ itemDataByFileID[lastCall.fileID] = livePhotoEntry(lastCall.fileID)

(* C22: a request makes the callback it passes the one callback of the     *)
(* file, in the place of any other, and leaves the callbacks of the other  *)
(* files alone; nothing but a request or the logout changes the callbacks; *)
(* and a step of a run that writes the entry of its file invokes the       *)
(* callback the file has then, if it has one, and no other.  So the        *)
(* callback invoked is the one of the latest request for the file, and a   *)
(* callback a later request has replaced is not invoked again.             *)
C22_CallbackLastWins ==
    [][/\ \A f \in Files : Requested(f) =>
             /\ DOMAIN needsRefreshByFileID' =
                    (DOMAIN needsRefreshByFileID) \cup {f}
             /\ needsRefreshByFileID'[f] = lastCall'.needsRefresh
             /\ \A g \in (DOMAIN needsRefreshByFileID) \ {f} :
                    needsRefreshByFileID'[g] = needsRefreshByFileID[g]
       /\ needsRefreshByFileID' # needsRefreshByFileID =>
             lastCall'.op \in {"itemDataForFile",
                               "logoutFileViewerDataSource"}
       /\ \A f \in Files : Resumed(f) =>
             IF lastCall'.did = "await" \/ ~Has(needsRefreshByFileID, f)
             THEN lastCall'.refreshed = NoCallback
             ELSE lastCall'.refreshed = needsRefreshByFileID[f]
      ]_vars

(* A request for a file whose run is in flight has put its callback in the *)
(* place of the callback of an earlier request.                            *)
C22_Witness ==
    /\ lastCall.op = "itemDataForFile"
    /\ ~lastCall.enqueued
    /\ lastCall.replaced \in Callbacks
    /\ lastCall.replaced # lastCall.needsRefresh
    /\ InFlight(lastCall.fileID) = 1
    /\ needsRefreshByFileID[lastCall.fileID] = lastCall.needsRefresh

----------------------------------------------------------------------------
(* Every promise a run awaits settles. *)

(* A run of the file resumes from the await it is suspended at. *)
Settles(fileID) == enqueueUpdates /\ lastCall'.fileID = fileID

(* A session in which every awaited promise resolves or rejects. *)
SpecSettling ==
    SpecInSession /\ \A f \in Files : WF_vars(Settles(f))

(* The last step was the last update of a run of the file: the update with *)
(* the content of the original, or markFailed.                             *)
TerminalUpdate(fileID) ==
    /\ lastCall.op = "enqueueUpdates"
    /\ lastCall.fileID = fileID
    /\ lastCall.returned
    /\ lastCall.did \in {"update", "markFailed"}
    /\ Has(itemDataByFileID, fileID)
    /\ LET itemData == itemDataByFileID[fileID]
       IN IF lastCall.did = "markFailed"
          THEN Truthy(itemData, "fetchFailed")
          ELSE /\ ~Has(itemData, "fetchFailed")
               /\ itemData = CASE fileTypeOf[fileID] = "image" ->
                                     imageEntry(fileID)
                               [] fileTypeOf[fileID] = "video" ->
                                     videoEntry(fileID)
                               [] fileTypeOf[fileID] = "livePhoto" ->
                                     livePhotoEntry(fileID)

(* C23: when every awaited promise settles, a run in flight for a file     *)
(* comes to its last update, the content of the original or fetchFailed,   *)
(* and the entry then has no isContentLoading, whatever requests and       *)
(* forgets are made meanwhile.                                             *)
C23_RunsToTerminalUpdate ==
    \A f \in Files :
        (InFlight(f) > 0) ~>
            (TerminalUpdate(f)
                /\ ~Has(itemDataByFileID[f], "isContentLoading"))

(* The run of a file came to its last update after a request for the       *)
(* other file, and after its own callback was registered anew.             *)
C23_Witness ==
    \E f, g \in Files :
        /\ f # g
        /\ TerminalUpdate(f)
        /\ ~Has(itemDataByFileID[f], "isContentLoading")
        /\ Has(itemDataByFileID, g)
        /\ InFlight(g) = 1

----------------------------------------------------------------------------
(* C24: in a session, when a run catches an error in its thumbnail stage   *)
(* it returns: no run of the file is in flight after the step, so none     *)
(* awaits renderableSourceURLs; the run had stored nothing before, and the *)
(* callback it invokes for the failure is the only one it invokes.  And a  *)
(* run that is past the thumbnail stage has stored the thumbnail entry     *)
(* and has notified for it.                                                *)
C24_ThumbnailFailureStops ==
    [][/\ \A f \in Files :
             (Resumed(f) /\ lastCall'.did = "markFailed"
                 /\ lastCall'.resumed \in ThumbnailStage) =>
                 /\ lastCall'.returned
                 /\ InFlight(f) = 1
                 /\ InFlight(f)' = 0
                 /\ lastCall'.wrote = placeholder(f)
                 /\ lastCall'.refreshed \in Callbacks
                 /\ lastCall'.refreshed = needsRefreshByFileID[f]
                 /\ lastCall'.refreshes = 1
                 /\ Truthy(itemDataByFileID'[f], "fetchFailed")
       /\ \A r \in BagToSet(runs') :
             r.at \notin ThumbnailStage =>
                 /\ r.refreshes >= 1
                 /\ r.wrote \in {thumbnailEntry(r.fileID),
                                 imageEntry(r.fileID)}
      ]_vars

(* The thumbnail fetch of a file rejected: its run has returned with one   *)
(* notification, and nothing of the file is in flight.                     *)
C24_Witness ==
    /\ Failed({"renderableThumbnailURL"})
    /\ lastCall.returned
    /\ lastCall.refreshes = 1
    /\ lastCall.wrote = placeholder(lastCall.fileID)
    /\ InFlight(lastCall.fileID) = 0

----------------------------------------------------------------------------
(* A call of updateFileInfoExifIfNeeded for the file, not a resumption. *)
ExifUpdateCalled(fileID) == ExifUpdated(fileID) /\ ~lastCall'.resumed

(* C25: updateFileInfoExifIfNeeded for a file that is not a video, with    *)
(* item data without originalImageBlob, changes nothing: no Exif entry is  *)
(* stored, extractRawExif is not called and no observer is invoked.  A     *)
(* call with the blob for a file that is not a video and has no Exif       *)
(* entry calls extractRawExif, whatever calls without the blob came        *)
(* before.                                                                 *)
C25_NoBlobNoOp ==
    [][\A f \in Files :
          (ExifUpdateCalled(f) /\ fileTypeOf[f] # "video") =>
              IF ~lastCall'.hasBlob
              THEN /\ lastCall'.did = "ignored"
                   /\ lastCall'.observed = NoCallback
                   /\ fileInfoExifByFileID' = fileInfoExifByFileID
                   /\ exifObserverByFileID' = exifObserverByFileID
                   /\ extractorCalls' = extractorCalls
                   /\ extractions' = extractions
              ELSE ~Has(fileInfoExifByFileID, f) =>
                       /\ lastCall'.did = "extract"
                       /\ extractorCalls'[f] = extractorCalls[f] + 1
                       /\ CopiesIn([fileID |-> f, stale |-> FALSE],
                                   extractions') =
                              CopiesIn([fileID |-> f, stale |-> FALSE],
                                       extractions) + 1
      ]_vars

(* A call without the blob was ignored for an image or live photo that has *)
(* an observer and no Exif entry, and nothing was extracted for it.        *)
C25_Witness ==
    /\ lastCall.op = "updateFileInfoExifIfNeeded"
    /\ ~lastCall.resumed
    /\ ~lastCall.hasBlob
    /\ lastCall.did = "ignored"
    /\ fileTypeOf[lastCall.fileID] # "video"
    /\ ~Has(fileInfoExifByFileID, lastCall.fileID)
    /\ Has(exifObserverByFileID, lastCall.fileID)
    /\ extractorCalls[lastCall.fileID] = 0

----------------------------------------------------------------------------
(* The Exif functions, called for files that have been requested and whose *)
(* fetches have not settled: the item cache and the callbacks are there.   *)
NextExifOfRequested ==
    \/ Request
    \/ NextExifInSession

SpecExifOfRequested == Init /\ [][NextExifOfRequested]_vars

ExifForgot(fileID) ==
    lastCall'.op = "forgetExifForItemData" /\ lastCall'.fileID = fileID

(* C26: forgetExifForItemData removes the Exif entry and the observer of   *)
(* its file, and leaves the Exif entries and the observers of the other    *)
(* files, the item entries and the needsRefresh callbacks as they are.     *)
C26_ForgetExifOfOneFile ==
    [][\A f \in Files : ExifForgot(f) =>
          /\ DOMAIN fileInfoExifByFileID' =
                 (DOMAIN fileInfoExifByFileID) \ {f}
          /\ \A g \in DOMAIN fileInfoExifByFileID' :
                 fileInfoExifByFileID'[g] = fileInfoExifByFileID[g]
          /\ DOMAIN exifObserverByFileID' =
                 (DOMAIN exifObserverByFileID) \ {f}
          /\ \A g \in DOMAIN exifObserverByFileID' :
                 exifObserverByFileID'[g] = exifObserverByFileID[g]
          /\ itemDataByFileID' = itemDataByFileID
          /\ needsRefreshByFileID' = needsRefreshByFileID
      ]_vars

(* The Exif entry of a file was removed, while the other file keeps its    *)
(* Exif entry and its observer, and both files keep their item entries     *)
(* and callbacks.                                                          *)
C26_Witness ==
    /\ lastCall.op = "forgetExifForItemData"
    /\ lastCall.removed
    /\ ~Has(fileInfoExifByFileID, lastCall.fileID)
    /\ ~Has(exifObserverByFileID, lastCall.fileID)
    /\ \E g \in Files \ {lastCall.fileID} :
          /\ Has(fileInfoExifByFileID, g)
          /\ Has(exifObserverByFileID, g)
    /\ DOMAIN itemDataByFileID = Files
    /\ DOMAIN needsRefreshByFileID = Files

(* The last step was a forget of the Exif data of the file. *)
ExifJustForgotten(fileID) ==
    \/ lastCall.op = "forgetExif"
    \/ lastCall.op = "forgetExifForItemData" /\ lastCall.fileID = fileID

(* C27: when a call of updateFileInfoExifIfNeeded that awaits               *)
(* extractRawExif resumes right after forgetExifForItemData of its file,   *)
(* or after forgetExif, it stores no Exif entry: the file has no Exif      *)
(* entry until updateFileInfoExifIfNeeded is called again.                 *)
C27_ForgottenStaysForgotten ==
    [][\A f \in Files :
          (ExifJustForgotten(f) /\ ExifUpdated(f) /\ lastCall'.resumed) =>
              ~Has(fileInfoExifByFileID', f)
      ]_vars

----------------------------------------------------------------------------
(* C28: a file with a run in flight that started after the last logout has *)
(* an entry, and the entry has no fetchFailed, so that the forgets of      *)
(* failed entries leave it alone.                                          *)
C28_InFlightEntryNotFailed ==
    \A f \in Files : \A r \in RunsOf(f) :
        ~r.stale =>
            /\ Has(itemDataByFileID, f)
            /\ ~Truthy(itemDataByFileID[f], "fetchFailed")

----------------------------------------------------------------------------
(* C29: a step of a run of a file leaves the entries of the other files,   *)
(* and the callbacks of all files, as they are, and the callback it        *)
(* invokes, if any, is the callback of its own file; under every           *)
(* interleaving of the runs, the requests, the forgets and the logout.     *)
C29_RunTouchesOwnFileOnly ==
    [][\A f \in Files : Resumed(f) =>
          /\ \A g \in Files \ {f} :
                /\ Has(itemDataByFileID', g) <=> Has(itemDataByFileID, g)
                /\ Has(itemDataByFileID, g) =>
                       itemDataByFileID'[g] = itemDataByFileID[g]
          /\ needsRefreshByFileID' = needsRefreshByFileID
          /\ lastCall'.refreshed # NoCallback =>
                /\ Has(needsRefreshByFileID, f)
                /\ lastCall'.refreshed = needsRefreshByFileID[f]
          /\ lastCall'.did # "await" =>
                /\ Has(itemDataByFileID', f)
                /\ itemDataByFileID'[f].fileID = f
      ]_vars

(* A run of one file stored its content and invoked its callback while the *)
(* run of the other file, which has another callback, is past its          *)
(* thumbnail update: the entry of the other file is still the thumbnail    *)
(* entry.                                                                  *)
C29_Witness ==
    /\ lastCall.op = "enqueueUpdates"
    /\ lastCall.did = "update"
    /\ lastCall.resumed # "thumbnailDimensions"
    /\ lastCall.refreshed \in Callbacks
    /\ \E g \in Files \ {lastCall.fileID} :
          /\ InFlight(g) = 1
          /\ Has(needsRefreshByFileID, g)
          /\ needsRefreshByFileID[g] # lastCall.refreshed
          /\ Has(itemDataByFileID, g)
          /\ itemDataByFileID[g] = thumbnailEntry(g)

----------------------------------------------------------------------------
(* C30: an entry has isContentZoomable only with the value false, and only *)
(* when its src is the thumbnail and it has neither imageURL nor videoURL; *)
(* so an entry with imageURL or videoURL has no isContentZoomable.         *)
C30_ZoomableOnlyOnThumbnail ==
    \A f \in DOMAIN itemDataByFileID :
        LET itemData == itemDataByFileID[f]
        IN /\ Has(itemData, "isContentZoomable") =>
                 /\ itemData.isContentZoomable = FALSE
                 /\ Has(itemData, "src")
                 /\ itemData.src = ThumbnailURL
                 /\ Absent(itemData, {"imageURL", "videoURL"})
           /\ (Has(itemData, "imageURL") \/ Has(itemData, "videoURL")) =>
                 ~Has(itemData, "isContentZoomable")

(* One file has the content of its original, without isContentZoomable,    *)
(* and the other has the thumbnail with isContentZoomable: false, kept     *)
(* when its original could not be fetched.                                 *)
C30_Witness ==
    \E f, g \in DOMAIN itemDataByFileID :
        /\ Has(itemDataByFileID[f], "imageURL")
        /\ ~Has(itemDataByFileID[f], "isContentZoomable")
        /\ Truthy(itemDataByFileID[g], "fetchFailed")
        /\ Has(itemDataByFileID[g], "isContentZoomable")
        /\ itemDataByFileID[g].isContentZoomable = FALSE
        /\ itemDataByFileID[g].src = ThumbnailURL

====
